---- MODULE Spec2Model ----
(***************************************************************************)
(* Model of scraper.py: one run of main(), which renders a listing page    *)
(* in a headless browser (scrape_falabella), extracts product records      *)
(* with a script evaluated in the page, posts them to a webhook            *)
(* (send_to_n8n) and exits with a status code.                             *)
(*                                                                         *)
(* The rendered page is an input: a sequence of top-level elements in      *)
(* document order, each with its descendants ("kids") in document order.   *)
(* JavaScript values are tagged records so that null, undefined and        *)
(* strings stay distinct; strings are sequences of characters so that      *)
(* trim() is computed.  Wall-clock fields (log timestamps, the envelope's  *)
(* timestamp and execution_time) are not modelled.                         *)
(***************************************************************************)
EXTENDS Integers, Sequences, FiniteSets

VARIABLES pc, page, playwright, browser, raised, scrapeProducts,
          scrapeResult, products, payload, posts, outcome, sendResult,
          exitCode

vars == <<pc, page, playwright, browser, raised, scrapeProducts,
          scrapeResult, products, payload, posts, outcome, sendResult,
          exitCode>>

\* Bounds of the explored pages.
MaxCards == 2
MaxKids == 2

-----------------------------------------------------------------------------
\* JavaScript / Python values

Null == [t |-> "null"]
Undefined == [t |-> "undefined"]
Str(s) == [t |-> "string", s |-> s]

\* The literal 'N/A' of lines 98-99.
NA == Str(<<"N", "/", "A">>)

\* JS truthiness of the values that occur: null, undefined and '' are falsy.
Truthy(v) == v.t = "string" /\ v.s # <<>>

\* a || b
Or(a, b) == IF Truthy(a) THEN a ELSE b

RECURSIVE TrimLeft(_)
TrimLeft(s) == IF s # <<>> /\ Head(s) = " " THEN TrimLeft(Tail(s)) ELSE s

RECURSIVE TrimRight(_)
TrimRight(s) ==
    IF s # <<>> /\ s[Len(s)] = " " THEN TrimRight(SubSeq(s, 1, Len(s) - 1)) ELSE s

\* String.prototype.trim
Trim(s) == TrimRight(TrimLeft(s))

-----------------------------------------------------------------------------
\* Selectors and the DOM

Cls(c) == [by |-> "class", v |-> c]
Tag(g) == [by |-> "tag", v |-> g]
Attr(a) == [by |-> "attr", v |-> a]
TestId(x) == [by |-> "testid", v |-> x]

\* Simple-selector match of one element.
Matches(el, sel) ==
    CASE sel.by = "class" -> el.cls = sel.v
      [] sel.by = "tag" -> el.tag = sel.v
      [] sel.by = "attr" -> sel.v = "data-price" /\ el.dataPrice
      [] sel.by = "testid" -> el.testid = sel.v

\* Match of a comma-separated selector list: any member matches.
MatchesAny(el, sels) == \E i \in 1..Len(sels) : Matches(el, sels[i])

\* Element.querySelectorAll over a sequence of elements in document order.
RECURSIVE QuerySelectorAll(_, _)
QuerySelectorAll(els, sels) ==
    IF els = <<>> THEN <<>>
    ELSE IF MatchesAny(Head(els), sels)
         THEN <<Head(els)>> \o QuerySelectorAll(Tail(els), sels)
         ELSE QuerySelectorAll(Tail(els), sels)

NoElement == [tag |-> "none"]

\* Element.querySelector: the first descendant in document order that
\* matches any member of the selector list, or null.
QuerySelector(card, sels) ==
    LET found == QuerySelectorAll(card.kids, sels)
    IN  IF found = <<>> THEN NoElement ELSE Head(found)

\* el?.textContent?.trim()
TrimmedText(el) == IF el = NoElement THEN Undefined ELSE Str(Trim(el.text))

\* imageEl?.src : the reflected property is '' when the attribute is absent.
SrcOf(el) ==
    IF el = NoElement THEN Undefined
    ELSE IF el.src = Null THEN Str(<<>>) ELSE el.src

\* imageEl?.getAttribute('data-src')
DataSrcOf(el) == IF el = NoElement THEN Undefined ELSE el.dataSrc

\* linkEl?.href
HrefOf(el) ==
    IF el = NoElement THEN Undefined
    ELSE IF el.href = Null THEN Str(<<>>) ELSE el.href

-----------------------------------------------------------------------------
\* The extraction script of page.evaluate (lines 68-112)

\* Line 59: the selector list handed to page.wait_for_selector.
waitSelectors ==
    <<Cls("product-item"), Cls("search-results-item"), Cls("product-card")>>

\* Lines 72-77: const selectors.
selectors ==
    <<Cls("product-item"), Cls("search-results-item"), Cls("product-card"),
      TestId("product-card")>>

\* Lines 88-94: the selector list of each field's card.querySelector call.
nameSelectors ==
    <<Cls("product-name"), Cls("search-results-4-grid__information__name"),
      Tag("h3"), Cls("title")>>
priceSelectors ==
    <<Cls("price"), Cls("search-results-4-grid__pod-price"),
      Cls("price-value"), Attr("data-price")>>
originalPriceSelectors ==
    <<Cls("original-price"), Cls("list-price"), Cls("price-old")>>
discountSelectors ==
    <<Cls("discount"), Cls("discount-percentage"), Cls("badge-discount")>>
imageSelectors == <<Tag("img")>>
linkSelectors == <<Tag("a")>>
ratingSelectors == <<Cls("rating"), Cls("stars"), Cls("review-rating")>>

\* Lines 79-83: the first selector with at least one match decides the
\* node list; when none matches, the list of the last selector (empty).
RECURSIVE ProductElementsFrom(_, _)
ProductElementsFrom(pg, i) ==
    LET found == QuerySelectorAll(pg, <<selectors[i]>>)
    IN  IF Len(found) > 0 \/ i = Len(selectors) THEN found
        ELSE ProductElementsFrom(pg, i + 1)

ProductElements(pg) == ProductElementsFrom(pg, 1)

\* Variant of the pushed object whose optional price falls back to the
\* sentinel string instead of null.
CardRecordSentinelEverywhere(card, index) ==
    [id |-> index + 1,
     name |-> Or(TrimmedText(QuerySelector(card, nameSelectors)), NA),
     price |-> Or(TrimmedText(QuerySelector(card, priceSelectors)), NA),
     originalPrice |->
         Or(TrimmedText(QuerySelector(card, originalPriceSelectors)), NA),
     discount |-> Or(TrimmedText(QuerySelector(card, discountSelectors)), Null),
     image |-> Or(SrcOf(QuerySelector(card, imageSelectors)),
                  Or(DataSrcOf(QuerySelector(card, imageSelectors)), Null)),
     link |-> Or(HrefOf(QuerySelector(card, linkSelectors)), Null),
     rating |-> Or(TrimmedText(QuerySelector(card, ratingSelectors)), Null)]

\* Lines 88-105: the object pushed for one card; index is forEach's
\* zero-based index.
CardRecord(card, index) ==
    [id |-> index + 1,
     name |-> Or(TrimmedText(QuerySelector(card, nameSelectors)), NA),
     price |-> Or(TrimmedText(QuerySelector(card, priceSelectors)), NA),
     originalPrice |->
         Or(TrimmedText(QuerySelector(card, originalPriceSelectors)), Null),
     discount |-> Or(TrimmedText(QuerySelector(card, discountSelectors)), Null),
     image |-> Or(SrcOf(QuerySelector(card, imageSelectors)),
                  Or(DataSrcOf(QuerySelector(card, imageSelectors)), Null)),
     link |-> Or(HrefOf(QuerySelector(card, linkSelectors)), Null),
     rating |-> Or(TrimmedText(QuerySelector(card, ratingSelectors)), Null)]

\* Lines 85-109: productElements.forEach with the per-card try/catch.  A
\* card whose processing throws is logged and contributes nothing; forEach
\* goes on with the next index.
RECURSIVE ForEachCard(_, _)
ForEachCard(els, index) ==
    IF els = <<>> THEN <<>>
    ELSE IF Head(els).throws # "none"
         THEN ForEachCard(Tail(els), index + 1)
         ELSE <<CardRecord(Head(els), index)>>
                  \o ForEachCard(Tail(els), index + 1)

\* Lines 68-112: the value of the evaluated script.
ExtractItems(pg) == ForEachCard(ProductElements(pg), 0)

-----------------------------------------------------------------------------
\* Pages the run may be given

El(tag, cls, text) ==
    [tag |-> tag, cls |-> cls, text |-> text, dataPrice |-> FALSE,
     src |-> Null, dataSrc |-> Null, href |-> Null]

ProductNameEl == El("span", "product-name", <<"S">>)
H3El == El("h3", "", <<"B">>)

\* Descendants a card may hold.
Elements ==
    { ProductNameEl,
      H3El,
      El("span", "price", <<" ", "9", " ">>),
      [El("span", "", <<" ">>) EXCEPT !.dataPrice = TRUE],
      El("span", "list-price", <<"N", "/", "A">>),
      El("span", "discount", <<"-">>),
      [El("img", "", <<>>) EXCEPT !.dataSrc = Str(<<"l">>)],
      [El("img", "", <<>>) EXCEPT !.src = Str(<<"i">>)],
      [El("a", "", <<"T">>) EXCEPT !.href = Str(<<"u">>)],
      El("div", "stars", <<"4">>) }

SeqsUpTo(S, n) == UNION { [1..k -> S] : k \in 0..n }

\* Class and data-testid of a top-level element.
Kinds ==
    { [cls |-> "product-item", testid |-> ""],
      [cls |-> "search-results-item", testid |-> ""],
      [cls |-> "product-card", testid |-> ""],
      [cls |-> "tile", testid |-> "product-card"],
      [cls |-> "banner", testid |-> ""] }

\* "none", or the field whose access throws while the card is processed.
Throws == {"none", "price"}

Card(kind, kids, throws) ==
    [tag |-> "div", cls |-> kind.cls, testid |-> kind.testid,
     kids |-> kids, throws |-> throws]

WideCards ==
    { Card(k, d, x) : k \in Kinds, d \in {<<>>, <<ProductNameEl>>}, x \in Throws }

RichCards ==
    { Card(k, d, x) : k \in Kinds, d \in SeqsUpTo(Elements, MaxKids), x \in Throws }

\* Pages of several plain cards, and pages of one card with several
\* descendants.
Pages == SeqsUpTo(WideCards, MaxCards) \cup { <<c>> : c \in RichCards }

-----------------------------------------------------------------------------
\* Exceptions, delivery outcomes and the envelope

NoExc == [class |-> "none", code |-> 0, what |-> "none"]
Exc(what) == [class |-> "Exception", code |-> 1, what |-> what]
\* sys.exit(code) raises SystemExit, which derives from BaseException.
SystemExit(code) == [class |-> "SystemExit", code |-> code, what |-> "sys.exit"]

\* What requests.post can come back with: a response, a Timeout, or any
\* other exception.
Outcomes ==
    [type : {"response"}, status : {200, 201, 404, 500},
     body : {"", "server error"}]
    \cup { [type |-> "timeout", status |-> 0, body |-> ""],
           [type |-> "fault", status |-> 0, body |-> ""] }

Return(v) == [kind |-> "return", value |-> v]
Raise(e) == [kind |-> "raise", value |-> e]
NoResult == [kind |-> "none", value |-> FALSE]

\* Variant that accepts every 2xx status.
SendResultOfAny2xx(o) ==
    IF o.type = "response" THEN Return(o.status >= 200 /\ o.status < 300)
    ELSE Return(FALSE)

\* Lines 143-166: how send_to_n8n ends for each outcome of the POST.
SendResultOf(o) ==
    IF o.type = "response"
    THEN Return(o.status = 200)                 \* lines 154-159
    ELSE IF o.type = "timeout"
         THEN Return(FALSE)                     \* lines 161-163
         ELSE Return(FALSE)                     \* lines 164-166

NoPayload == [source |-> "none"]

\* Variant that leaves out the records that have no name.
EnvelopeNamedOnly(ps) ==
    [source |-> "falabella",
     category |-> "zapatillas-zapatos-hombre",
     total_products |-> Len(ps),
     products |-> SelectSeq(ps, LAMBDA r : r.name # NA),
     metadata |-> [scraper_version |-> "1.0"]]

\* Lines 129-139: payload.
Envelope(ps) ==
    [source |-> "falabella",
     category |-> "zapatillas-zapatos-hombre",
     total_products |-> Len(ps),
     products |-> ps,
     metadata |-> [scraper_version |-> "1.0"]]

\* Variant of a bare "except:", which also catches SystemExit.
CaughtByBareExcept(e) == e.class # "none"

\* Line 194: "except Exception" catches Exception and its subclasses only.
CaughtByExceptException(e) == e.class = "Exception"

\* Line 178: "not products" for a list.
IsEmptyList(ps) == Len(ps) = 0

-----------------------------------------------------------------------------
\* The run

Init ==
    /\ pc = "main"
    /\ page \in Pages
    /\ playwright = "none"
    /\ browser = "none"
    /\ raised = NoExc
    /\ scrapeProducts = <<>>
    /\ scrapeResult = "pending"
    /\ products = <<>>
    /\ payload = NoPayload
    /\ posts = 0
    /\ outcome = [type |-> "none", status |-> 0, body |-> ""]
    /\ sendResult = NoResult
    /\ exitCode = -1

\* Lines 170-176: main logs its banner and calls scrape_falabella.
MainStart ==
    /\ pc = "main"
    /\ pc' = "sync_playwright"
    /\ UNCHANGED <<page, playwright, browser, raised, scrapeProducts,
                   scrapeResult, products, payload, posts, outcome,
                   sendResult, exitCode>>

\* Line 31: entering "with sync_playwright() as p".  When the driver
\* cannot start, the with body and its exit never run.
StartPlaywright ==
    /\ pc = "sync_playwright"
    /\ \/ /\ playwright' = "running"
          /\ pc' = "launch"
          /\ UNCHANGED raised
       \/ /\ raised' = Exc("start")
          /\ pc' = "scrape_except"
          /\ UNCHANGED playwright
    /\ UNCHANGED <<page, browser, scrapeProducts, scrapeResult, products,
                   payload, posts, outcome, sendResult, exitCode>>

\* Lines 33-50: launch the browser, open a context and a page.
Launch ==
    /\ pc = "launch"
    /\ \/ /\ browser' = "open"
          /\ pc' = "goto"
          /\ UNCHANGED raised
       \/ /\ raised' = Exc("launch")
          /\ pc' = "with_exit"
          /\ UNCHANGED browser
    /\ UNCHANGED <<page, playwright, scrapeProducts, scrapeResult, products,
                   payload, posts, outcome, sendResult, exitCode>>

\* Line 55: page.goto with a 60 s timeout.
Goto ==
    /\ pc = "goto"
    /\ \/ /\ pc' = "wait"
          /\ UNCHANGED raised
       \/ /\ raised' = Exc("nav_timeout")
          /\ pc' = "with_exit"
    /\ UNCHANGED <<page, playwright, browser, scrapeProducts, scrapeResult,
                   products, payload, posts, outcome, sendResult, exitCode>>

\* Line 59: page.wait_for_selector with a 30 s timeout; the rendered page
\* is taken as settled, so the wait ends well exactly when some element
\* matches the list.
WaitForSelector ==
    /\ pc = "wait"
    /\ IF QuerySelectorAll(page, waitSelectors) # <<>>
       THEN /\ pc' = "scroll"
            /\ UNCHANGED raised
       ELSE /\ raised' = Exc("selector_timeout")
            /\ pc' = "with_exit"
    /\ UNCHANGED <<page, playwright, browser, scrapeProducts, scrapeResult,
                   products, payload, posts, outcome, sendResult, exitCode>>

\* Lines 63-64: scroll to the bottom and pause.
Scroll ==
    /\ pc = "scroll"
    /\ \/ /\ pc' = "evaluate"
          /\ UNCHANGED raised
       \/ /\ raised' = Exc("scroll")
          /\ pc' = "with_exit"
    /\ UNCHANGED <<page, playwright, browser, scrapeProducts, scrapeResult,
                   products, payload, posts, outcome, sendResult, exitCode>>

\* Lines 68-112: products = page.evaluate(script).
Evaluate ==
    /\ pc = "evaluate"
    /\ \/ /\ scrapeProducts' = ExtractItems(page)
          /\ pc' = "close"
          /\ UNCHANGED raised
       \/ /\ raised' = Exc("evaluate")
          /\ pc' = "with_exit"
          /\ UNCHANGED scrapeProducts
    /\ UNCHANGED <<page, playwright, browser, scrapeResult, products,
                   payload, posts, outcome, sendResult, exitCode>>

\* Lines 114-116: browser.close(), log, return products (the return value
\* passes through the exit of the with block).
BrowserClose ==
    /\ pc = "close"
    /\ \/ /\ browser' = "closed"
          /\ UNCHANGED raised
       \/ /\ raised' = Exc("close")
          /\ UNCHANGED browser
    /\ pc' = "with_exit"
    /\ UNCHANGED <<page, playwright, scrapeProducts, scrapeResult, products,
                   payload, posts, outcome, sendResult, exitCode>>

\* Variant in which leaving the with block leaves the browser alone.
WithExitKeepsBrowser ==
    /\ pc = "with_exit"
    /\ playwright' = "stopped"
    /\ pc' = IF raised = NoExc THEN "scrape_return" ELSE "scrape_except"
    /\ UNCHANGED <<page, browser, raised, scrapeProducts, scrapeResult,
                   products, payload, posts, outcome, sendResult, exitCode>>

\* Line 31: leaving "with sync_playwright()", on return and on exception
\* alike: the driver is stopped, which ends every browser it still runs.
WithExit ==
    /\ pc = "with_exit"
    /\ playwright' = "stopped"
    /\ browser' = IF browser = "open" THEN "closed" ELSE browser
    /\ pc' = IF raised = NoExc THEN "scrape_return" ELSE "scrape_except"
    /\ UNCHANGED <<page, raised, scrapeProducts, scrapeResult, products,
                   payload, posts, outcome, sendResult, exitCode>>

\* Lines 118-120: scrape_falabella's handler logs and re-raises.
ScrapeExcept ==
    /\ pc = "scrape_except"
    /\ scrapeResult' = "raised"
    /\ pc' = "main_except"
    /\ UNCHANGED <<page, playwright, browser, raised, scrapeProducts,
                   products, payload, posts, outcome, sendResult, exitCode>>

\* Line 176: the returned list is bound to main's products.
ScrapeReturn ==
    /\ pc = "scrape_return"
    /\ scrapeResult' = "returned"
    /\ products' = scrapeProducts
    /\ pc' = "check"
    /\ UNCHANGED <<page, playwright, browser, raised, scrapeProducts,
                   payload, posts, outcome, sendResult, exitCode>>

\* Variant without the empty-result exit.
MainCheckAlwaysSends ==
    /\ pc = "check"
    /\ pc' = "send"
    /\ UNCHANGED <<page, playwright, browser, raised, scrapeProducts,
                   scrapeResult, products, payload, posts, outcome,
                   sendResult, exitCode>>

\* Lines 178-180: an empty result ends the run with sys.exit(1).
MainCheck ==
    /\ pc = "check"
    /\ IF IsEmptyList(products)
       THEN /\ raised' = SystemExit(1)
            /\ pc' = "main_except"
       ELSE /\ pc' = "send"
            /\ UNCHANGED raised
    /\ UNCHANGED <<page, playwright, browser, scrapeProducts, scrapeResult,
                   products, payload, posts, outcome, sendResult, exitCode>>

\* Lines 122-166 called from line 183: build the payload, post it once,
\* classify the outcome.
SendToN8n ==
    /\ pc = "send"
    /\ payload' = Envelope(products)
    /\ posts' = posts + 1
    /\ \E o \in Outcomes :
          /\ outcome' = o
          /\ sendResult' = SendResultOf(o)
    /\ pc' = "branch"
    /\ UNCHANGED <<page, playwright, browser, raised, scrapeProducts,
                   scrapeResult, products, exitCode>>

\* Lines 185-192: sys.exit(0) on success, sys.exit(1) otherwise; an
\* exception out of send_to_n8n would propagate.
MainBranch ==
    /\ pc = "branch"
    /\ raised' = IF sendResult.kind = "raise" THEN sendResult.value
                 ELSE IF sendResult.value THEN SystemExit(0)
                 ELSE SystemExit(1)
    /\ pc' = "main_except"
    /\ UNCHANGED <<page, playwright, browser, scrapeProducts, scrapeResult,
                   products, payload, posts, outcome, sendResult, exitCode>>

\* Lines 194-196: what is raised inside main's try meets "except
\* Exception"; the handler logs and calls sys.exit(1).
MainExcept ==
    /\ pc = "main_except"
    /\ raised' = IF CaughtByExceptException(raised) THEN SystemExit(1)
                 ELSE raised
    /\ pc' = "exit"
    /\ UNCHANGED <<page, playwright, browser, scrapeProducts, scrapeResult,
                   products, payload, posts, outcome, sendResult, exitCode>>

\* Lines 198-199: SystemExit reaches the interpreter, which exits with
\* its code.
ProcessExit ==
    /\ pc = "exit"
    /\ exitCode' = raised.code
    /\ pc' = "done"
    /\ UNCHANGED <<page, playwright, browser, raised, scrapeProducts,
                   scrapeResult, products, payload, posts, outcome,
                   sendResult>>

Next ==
    \/ MainStart
    \/ StartPlaywright
    \/ Launch
    \/ Goto
    \/ WaitForSelector
    \/ Scroll
    \/ Evaluate
    \/ BrowserClose
    \/ WithExit
    \/ ScrapeExcept
    \/ ScrapeReturn
    \/ MainCheck
    \/ SendToN8n
    \/ MainBranch
    \/ MainExcept
    \/ ProcessExit

Spec == Init /\ [][Next]_vars

-----------------------------------------------------------------------------
\* Properties

\* Positions at which scrape_falabella has handed control back: its own
\* handler, its return, and everything main does afterwards.
AfterWith ==
    {"scrape_except", "scrape_return", "check", "send", "branch",
     "main_except", "exit", "done"}

\* The container element a record was built from (id is index + 1).
CardOf(r) == ProductElements(page)[r.id]

\* C1: when the process has exited, its exit code is 0 or 1, and it is 0
\* exactly when scrape_falabella returned at least one record and
\* send_to_n8n returned true; the SystemExit of sys.exit(0) is not turned
\* into exit code 1 by main's handler.
ExitCodeContract ==
    pc = "done" =>
        /\ exitCode \in {0, 1}
        /\ exitCode = 0 <=>
              /\ scrapeResult = "returned"
              /\ Len(products) >= 1
              /\ sendResult = Return(TRUE)

ExitCodeZeroReached ==
    pc = "done" /\ exitCode = 0 /\ sendResult = Return(TRUE)

\* C2: a run posts at most once; once it has ended it has posted exactly
\* once if extraction returned a non-empty sequence and not at all
\* otherwise, and an envelope exists only in the former case.
PostCount ==
    /\ posts <= 1
    /\ payload # NoPayload => posts = 1
    /\ posts = 1 => scrapeResult = "returned" /\ products # <<>>
    /\ pc = "done" =>
          posts = IF scrapeResult = "returned" /\ products # <<>> THEN 1 ELSE 0

FailedDeliveryNotRetried ==
    pc = "done" /\ posts = 1 /\ sendResult = Return(FALSE) /\ exitCode = 1

\* C3: send_to_n8n ends by returning a boolean, never by raising, and the
\* boolean is true exactly when the POST came back with status 200,
\* whatever the body.
SendReturnsBoolean ==
    sendResult # NoResult =>
        /\ sendResult.kind = "return"
        /\ sendResult.value \in BOOLEAN
        /\ sendResult.value <=> (outcome.type = "response" /\ outcome.status = 200)

SendTrueOn200AnyBody ==
    /\ sendResult = Return(TRUE)
    /\ outcome.status = 200
    /\ outcome.body = "server error"

\* C4: once scrape_falabella has left its with block, by return or by
\* exception, no browser is held: neither its handler nor main ever runs
\* with the browser open.
BrowserReleased == pc \in AfterWith => browser # "open"

ReleasedOnSelectorTimeout ==
    /\ pc = "scrape_except"
    /\ raised.what = "selector_timeout"
    /\ browser = "closed"

\* C5: the ids of the extracted records are 1..N in order, also when the
\* processing of some matched card throws.
DenseIds ==
    \A i \in 1..Len(scrapeProducts) : scrapeProducts[i].id = i

\* C6: the envelope's total_products is the length of its products, and
\* its products are the extracted records unchanged, each built from a
\* matched container, in the order of those containers on the page.
EnvelopeFaithful ==
    payload # NoPayload =>
        /\ payload.total_products = Len(payload.products)
        /\ payload.products = scrapeProducts
        /\ \A i \in 1..Len(payload.products) :
              /\ payload.products[i].id \in 1..Len(ProductElements(page))
              /\ payload.products[i]
                    = CardRecord(CardOf(payload.products[i]),
                                 payload.products[i].id - 1)
              /\ \A j \in 1..(i - 1) :
                    payload.products[j].id < payload.products[i].id

EnvelopeOfSeveralRecords ==
    /\ payload # NoPayload
    /\ Len(payload.products) >= 2
    /\ \E i \in 1..Len(payload.products) : payload.products[i].name = NA

NullableFields == {"originalPrice", "discount", "image", "link", "rating"}

FieldSelectors(f) ==
    CASE f = "name" -> nameSelectors
      [] f = "price" -> priceSelectors
      [] f = "originalPrice" -> originalPriceSelectors
      [] f = "discount" -> discountSelectors
      [] f = "image" -> imageSelectors
      [] f = "link" -> linkSelectors
      [] f = "rating" -> ratingSelectors

NoMatch(card, f) == ~ \E k \in 1..Len(card.kids) : MatchesAny(card.kids[k], FieldSelectors(f))

\* C7: in every extracted record name and price are non-empty strings,
\* 'N/A' when their selector list matches nothing in the card; each of
\* originalPrice, discount, image, link and rating is null (not 'N/A')
\* when its selector list matches nothing.
FieldFallbacks ==
    \A i \in 1..Len(scrapeProducts) :
        LET r == scrapeProducts[i]
            card == CardOf(r)
        IN  /\ \A f \in {"name", "price"} :
                  /\ r[f].t = "string"
                  /\ r[f].s # <<>>
                  /\ NoMatch(card, f) => r[f] = NA
            /\ \A f \in NullableFields :
                  NoMatch(card, f) => r[f] = Null /\ r[f] # NA

RecordWithFallbacks ==
    \E i \in 1..Len(scrapeProducts) :
        LET r == scrapeProducts[i]
        IN  /\ NoMatch(CardOf(r), "name") /\ r.name = NA
            /\ NoMatch(CardOf(r), "originalPrice") /\ r.originalPrice = Null
            /\ NoMatch(CardOf(r), "image") /\ r.image = Null
            /\ ~ NoMatch(CardOf(r), "price")

\* C8: a failure in one field of a matched container loses neither the
\* record nor the run: a returned result has one record per matched
\* container.
OneRecordPerContainer ==
    scrapeResult = "returned" => Len(products) = Len(ProductElements(page))

\* The element found by trying the members of a selector list one after
\* the other, in the order of the list.
RECURSIVE PriorityQuerySelector(_, _)
PriorityQuerySelector(card, sels) ==
    IF sels = <<>> THEN NoElement
    ELSE IF QuerySelector(card, <<Head(sels)>>) # NoElement
         THEN QuerySelector(card, <<Head(sels)>>)
         ELSE PriorityQuerySelector(card, Tail(sels))

\* C9: each text field of a record comes from the element matched by the
\* earliest member of the field's selector list that matches inside the
\* card, whatever the document order of the candidates.
EarliestSubSelectorWins ==
    \A i \in 1..Len(scrapeProducts) :
        LET r == scrapeProducts[i]
            card == CardOf(r)
        IN  /\ r.name = Or(TrimmedText(PriorityQuerySelector(card, nameSelectors)), NA)
            /\ r.price = Or(TrimmedText(PriorityQuerySelector(card, priceSelectors)), NA)

\* C10: the selector wait times out only on pages where the extraction
\* pass would find no container either.
WaitCoversExtraction ==
    raised.what = "selector_timeout" => ProductElements(page) = <<>>

====
